---- MODULE Spec2Model ----
(***************************************************************************)
(* Model of atspi-cache-sigmon (src/src/main.rs): a listener that opens    *)
(* the accessibility bus, registers for three cache events, and then runs  *)
(* one consume loop over the filtered message stream.  For every decoded   *)
(* Cache Add event it builds two proxies and queries their properties.     *)
(*                                                                         *)
(* The program is one async task.  Every .await is a suspension point and  *)
(* is one action of the model; pc is the position of main().               *)
(***************************************************************************)
EXTENDS Integers, Sequences, FiniteSets, TLC

\* Number of items the underlying message stream yields before it ends.
MaxMsgs == 3

\* Number of Cache Add signals among them.
MaxAdds == 1

\* Number of items the stream yields in EnvSpec, where the environment of the
\* program (the remote objects, the end of the stream) is explicit.
MaxEnvMsgs == 2

----------------------------------------------------------------------------
\* Constants of the program and the values that travel through it

APPLICATION_INTERFACE == "org.a11y.atspi.Application"

ACCESSIBLE_INTERFACE == "org.a11y.atspi.Accessible"

\* The three registrations of atspi_setup_connection, in program order.
RegOrder == <<"AddAccessibleEvent", "LegacyAddAccessibleEvent", "RemoveAccessibleEvent">>

\* Absence of a value (a message without body signature, no proxy in scope).
NoSig == "<no signature>"

\* Names that parse as a D-Bus interface name / bus name / object path: what
\* the TryInto conversions of ProxyBuilder::interface, ::destination and
\* ::path accept.
ValidInterfaceNames == {"org.a11y.atspi.Application", "org.a11y.atspi.Accessible"}

ValidBusNames == {"org.example.App", ":1.42"}

ValidObjectPaths == {"/org/example/App/Root"}

\* Bus names an Add event's application reference may carry.  The name is a
\* plain string on the wire, so it need not be a well-formed bus name.
BusNames == {"org.example.App", "not a bus name"}

\* Object paths an Add event's application reference may carry.  The payload
\* is decoded into an object-path type, so only well-formed paths decode.
ObjectPaths == {"/org/example/App/Root"}

\* Outcome of a failed remote call.
Fail == "<err>"

ToolkitValues == {"Gtk"}

NameValues == {"MainWindow"}

DescriptionValues == {""}

RoleValues == {"Frame"}

\* The fallbacks handed to unwrap_or.
TOOLKIT_PLACEHOLDER == "Could not read toolkit property"

NAME_PLACEHOLDER == "Could not read name property"

DESCRIPTION_PLACEHOLDER == "Could not obtain a description."

ROLE_UNKNOWN == "Unknown"

----------------------------------------------------------------------------
\* Items of the raw message stream: Result<Arc<Message>, zbus::Error>

\* A failed read: Err(e).  It carries no message.
ReadFailure ==
    [ok |-> FALSE, kind |-> "n/a", ev |-> "None", sig |-> NoSig, name |-> "", path |-> ""]

\* Ok(msg) whose message type is not Signal.  Event::try_from is never applied
\* to these, so they carry no decoding.
NonSignals ==
    { [ok |-> TRUE, kind |-> k, ev |-> "None", sig |-> NoSig, name |-> "", path |-> ""] :
        k \in {"method_call", "method_return", "error"} }

\* Ok(msg), a signal that Event::try_from does not decode.
UndecodableSignal ==
    [ok |-> TRUE, kind |-> "signal", ev |-> "None", sig |-> NoSig, name |-> "", path |-> ""]

\* Ok(msg), a signal decoding to an Event that is not a Cache event.
OtherSignal ==
    [ok |-> TRUE, kind |-> "signal", ev |-> "Other", sig |-> "siiva{sv}", name |-> "", path |-> ""]

RemoveSignal ==
    [ok |-> TRUE, kind |-> "signal", ev |-> "Remove", sig |-> "(so)", name |-> "", path |-> ""]

LegacyAddSignal ==
    [ok |-> TRUE, kind |-> "signal", ev |-> "LegacyAdd", sig |-> "((so)(so)(so)a(so)assusau)",
     name |-> "", path |-> ""]

\* Cache Add signals; name and path are node_added.app.name / .path.
AddSignals ==
    { [ok |-> TRUE, kind |-> "signal", ev |-> "Add", sig |-> "((so)(so)(so)iiassusau)",
       name |-> b, path |-> p] : b \in BusNames, p \in ObjectPaths }

\* Decoding reads the body with its signature, so every decoded event comes
\* from a message that has a body signature.
RawItems ==
    {ReadFailure, UndecodableSignal, OtherSignal, RemoveSignal, LegacyAddSignal}
        \cup NonSignals \cup AddSignals

\* No message is held by the loop body.
NoMsg ==
    [ok |-> FALSE, kind |-> "n/a", ev |-> "None", sig |-> NoSig, name |-> "<none>", path |-> ""]

\* No application reference is in scope.
NoApp == [name |-> "", path |-> ""]

\* No proxy is in scope.
NoProxy == [iface |-> "", path |-> "", dest |-> ""]

----------------------------------------------------------------------------
VARIABLES
    pc,          \* position of main(): see PcValues
    connected,   \* AccessibilityConnection::open() succeeded
    registered,  \* the event registrations done so far, in order
    setupErr,    \* the step of atspi_setup_connection that failed, or "none"
    input,       \* every item the underlying MessageStream has yielded
    delivered,   \* every item raw_signals.next() has returned to the loop
    cur,         \* the item bound to msg in the loop body
    app,         \* node_added.app of the Add event being handled, or NoApp
    proxy,       \* the proxy bound by the enclosing if-let, or NoProxy
    out,         \* the lines printed to standard output
    calls,       \* the handle builds and property fetches attempted, in order
    epoch,       \* how often the state of the remote objects has changed
    closed       \* the underlying stream has ended (the bus connection is closed)

vars ==
    <<pc, connected, registered, setupErr, input, delivered, cur, app, proxy, out, calls,
      epoch, closed>>

PcValues ==
    {"open", "register", "next", "match",
     "app_build", "app_toolkit", "acc_build", "acc_name", "acc_description", "acc_role",
     "exit_ok", "exit_err", "panicked"}

\* Positions inside the arm of Event::Cache(CacheEvents::Add(event)).
AddArmPcs ==
    {"app_build", "app_toolkit", "acc_build", "acc_name", "acc_description", "acc_role"}

\* The item in the loop body is item number N of the underlying stream.
N == Len(input)

\* println!: one line of standard output, printed while handling item n.
Line(n, kind, args) == [n |-> n, kind |-> kind, text |-> args]

\* One handle build or property fetch attempted while handling item n, on the
\* address of p, after `at` lines had been printed, with outcome res, answered
\* by the remote objects in their state number `epoch`.
Call(n, op, p, at, res) ==
    [n |-> n, op |-> op, iface |-> p.iface, path |-> p.path, dest |-> p.dest,
     at |-> at, res |-> res, ep |-> epoch]

----------------------------------------------------------------------------
Init ==
    /\ pc = "open"
    /\ connected = FALSE
    /\ registered = <<>>
    /\ setupErr = "none"
    /\ input = <<>>
    /\ delivered = <<>>
    /\ cur = NoMsg
    /\ app = NoApp
    /\ proxy = NoProxy
    /\ out = <<>>
    /\ calls = <<>>
    /\ epoch = 0
    /\ closed = FALSE

----------------------------------------------------------------------------
\* atspi_setup_connection

\* Variant of SetupStep: the `?` is missing and a failed step is passed over.
SetupStep_ignore_err(ok, next) == next

\* `?` on a setup step: Ok goes on to `next`, Err leaves main with the error.
SetupStep(ok, next) == IF ok THEN next ELSE "exit_err"

\* AccessibilityConnection::open().await?
open ==
    /\ pc = "open"
    /\ \E ok \in BOOLEAN :
        /\ connected' = ok
        /\ pc' = SetupStep(ok, "register")
        /\ setupErr' = IF ok THEN setupErr ELSE "open"
    /\ UNCHANGED <<epoch, closed, registered, input, delivered, cur, app, proxy, out, calls>>

\* atspi.register_event::<E>().await? for the next E of RegOrder; after the
\* third, Ok(atspi) is returned and main builds the filtered stream.
register_event ==
    /\ pc = "register"
    /\ LET k == Len(registered) + 1 IN
       \E ok \in BOOLEAN :
        /\ registered' = IF ok THEN Append(registered, RegOrder[k]) ELSE registered
        /\ pc' = SetupStep(ok, IF k = Len(RegOrder) THEN "next" ELSE "register")
        /\ setupErr' = IF ok THEN setupErr ELSE RegOrder[k]
    /\ UNCHANGED <<epoch, closed, connected, input, delivered, cur, app, proxy, out, calls>>

----------------------------------------------------------------------------
\* The filtered stream and the loop head

\* Variant of filter_pred: the message type is not looked at.
filter_pred_ok_only(msg) == msg.ok

\* The closure handed to .filter().
filter_pred(msg) == msg.ok /\ msg.kind = "signal"

\* The number of Cache Add signals the stream has yielded.
AddsSeen == Cardinality({i \in 1..Len(input) : input[i].ev = "Add"})

\* Variant of stream_item: the next message is taken while the Add arm still
\* awaits a remote call, whose handling is dropped.
stream_item_while_pending ==
    /\ pc \in {"next", "app_build", "app_toolkit", "acc_build", "acc_name",
               "acc_description", "acc_role"}
    /\ Len(input) < MaxMsgs
    /\ \E item \in RawItems :
        /\ item.ev = "Add" => AddsSeen < MaxAdds
        /\ input' = Append(input, item)
        /\ IF filter_pred(item)
             THEN /\ delivered' = Append(delivered, item)
                  /\ cur' = item
                  /\ pc' = "match"
             ELSE /\ delivered' = delivered
                  /\ cur' = NoMsg
                  /\ pc' = "next"
    /\ app' = NoApp
    /\ proxy' = NoProxy
    /\ UNCHANGED <<epoch, closed, connected, registered, setupErr, out, calls>>

\* raw_signals.next().await, one poll of the underlying stream that yields an
\* item: the filter drops it or hands it to the loop body.
stream_yield(items, maxMsgs, maxAdds) ==
    /\ pc = "next"
    /\ ~closed
    /\ Len(input) < maxMsgs
    /\ \E item \in items :
        /\ item.ev = "Add" => AddsSeen < maxAdds
        /\ input' = Append(input, item)
        /\ IF filter_pred(item)
             THEN /\ delivered' = Append(delivered, item)
                  /\ cur' = item
                  /\ pc' = "match"
             ELSE UNCHANGED <<delivered, cur, pc>>
    /\ UNCHANGED <<epoch, closed, connected, registered, setupErr, app, proxy, out, calls>>

\* The stream yields any kind of item.
stream_item == stream_yield(RawItems, MaxMsgs, MaxAdds)

\* raw_signals.next().await returns None, at once when the stream has ended
\* already: the loop ends and main returns Ok(()).
stream_end ==
    /\ pc = "next"
    /\ pc' = "exit_ok"
    /\ closed' = TRUE
    /\ UNCHANGED <<epoch, connected, registered, setupErr, input, delivered, cur, app, proxy,
                   out, calls>>

----------------------------------------------------------------------------
\* The loop body: match msg { Ok(msg) => ..., Err(e) => ... }

\* Event::try_from(&*msg): the decoded variant, "None" when decoding fails.
try_from(msg) == msg.ev

\* msg.body_signature(): the signature, NoSig for Err.
body_signature(msg) == msg.sig

\* Variant of match_arm: Remove events are sent to the Add arm.
match_arm_remove_as_add(msg) ==
    IF ~msg.ok THEN "Err"
    ELSE IF try_from(msg) = "None" THEN "Undecoded"
    ELSE IF try_from(msg) \in {"Add", "Remove"} THEN "Add"
    ELSE IF try_from(msg) = "LegacyAdd" THEN "LegacyAdd"
    ELSE "Ignored"

\* Variant of match_arm: a failed decoding is reported like a failed read.
match_arm_undecoded_as_err(msg) ==
    IF ~msg.ok \/ try_from(msg) = "None" THEN "Err"
    ELSE IF try_from(msg) \in {"Add", "Remove", "LegacyAdd"} THEN try_from(msg)
    ELSE "Ignored"

\* The arm of the two nested matches that runs for msg.
match_arm(msg) ==
    IF ~msg.ok THEN "Err"
    ELSE IF try_from(msg) = "None" THEN "Undecoded"
    ELSE IF try_from(msg) \in {"Add", "Remove", "LegacyAdd"} THEN try_from(msg)
    ELSE "Ignored"

\* Variant of arm_lines: the Add arm prints the root object before the signature.
arm_lines_root_first(arm, n, msg) ==
    CASE arm = "Add" ->
            << Line(n, "root", <<msg.name, msg.path>>),
               Line(n, "add_sig", <<body_signature(msg)>>) >>
      [] arm = "Remove" -> << Line(n, "remove_sig", <<body_signature(msg)>>) >>
      [] arm = "LegacyAdd" -> << Line(n, "legacy_sig", <<body_signature(msg)>>) >>
      [] arm = "Err" -> << Line(n, "error", <<"Error">>) >>
      [] OTHER -> << >>

\* Variant of arm_lines: the LegacyAdd arm prints nothing.
arm_lines_legacy_silent(arm, n, msg) ==
    CASE arm = "Add" ->
            << Line(n, "add_sig", <<body_signature(msg)>>),
               Line(n, "root", <<msg.name, msg.path>>) >>
      [] arm = "Remove" -> << Line(n, "remove_sig", <<body_signature(msg)>>) >>
      [] arm = "Err" -> << Line(n, "error", <<"Error">>) >>
      [] OTHER -> << >>

\* The lines an arm prints before its first suspension point.
arm_lines(arm, n, msg) ==
    CASE arm = "Add" ->
            << Line(n, "add_sig", <<body_signature(msg)>>),
               Line(n, "root", <<msg.name, msg.path>>) >>
      [] arm = "Remove" -> << Line(n, "remove_sig", <<body_signature(msg)>>) >>
      [] arm = "LegacyAdd" -> << Line(n, "legacy_sig", <<body_signature(msg)>>) >>
      [] arm = "Err" -> << Line(n, "error", <<"Error">>) >>
      [] OTHER -> << >>

\* Variant of dispatch: an Add event whose message was seen before is passed
\* over (the program remembers what it has handled).
dispatch_skip_seen ==
    /\ pc = "match"
    /\ LET seen == \E i \in 1..(Len(input) - 1) : input[i] = cur
           arm == IF seen THEN "Ignored" ELSE match_arm(cur)
       IN
       /\ out' = out \o arm_lines(arm, N, cur)
       /\ IF arm = "Add"
            THEN /\ app' = [name |-> cur.name, path |-> cur.path]
                 /\ pc' = "app_build"
                 /\ cur' = cur
            ELSE /\ app' = NoApp
                 /\ pc' = "next"
                 /\ cur' = NoMsg
    /\ UNCHANGED <<epoch, closed, connected, registered, setupErr, input, delivered, proxy, calls>>

\* Variant of dispatch: the proxies are addressed to the sender of the message
\* instead of the application reference in its body.
dispatch_app_from_header ==
    /\ pc = "match"
    /\ LET arm == match_arm(cur) IN
       /\ out' = out \o arm_lines(arm, N, cur)
       /\ IF arm = "Add"
            THEN /\ app' = [name |-> cur.sender, path |-> cur.path]
                 /\ pc' = "app_build"
                 /\ cur' = cur
            ELSE /\ app' = NoApp
                 /\ pc' = "next"
                 /\ cur' = NoMsg
    /\ UNCHANGED <<epoch, closed, connected, registered, setupErr, input, delivered, proxy, calls>>

\* Everything from `match msg` up to the first .await of the selected arm (or
\* to the end of the iteration when the arm has none).
dispatch ==
    /\ pc = "match"
    /\ LET arm == match_arm(cur) IN
       IF arm \in {"Add", "Remove", "LegacyAdd"} /\ body_signature(cur) = NoSig
       THEN \* .unwrap() on Err panics
            /\ pc' = "panicked"
            /\ UNCHANGED <<cur, app, out>>
       ELSE /\ out' = out \o arm_lines(arm, N, cur)
            /\ IF arm = "Add"
                 THEN /\ app' = [name |-> cur.name, path |-> cur.path]
                      /\ pc' = "app_build"
                      /\ cur' = cur
                 ELSE /\ app' = NoApp
                      /\ pc' = "next"
                      /\ cur' = NoMsg
    /\ UNCHANGED <<epoch, closed, connected, registered, setupErr, input, delivered, proxy, calls>>

----------------------------------------------------------------------------
\* The arm of Cache Add: the two proxies and their properties

\* ProxyBuilder::new(conn).interface(i)?.path(p)?.destination(d)?: Ok with the
\* address the proxy will have when all three conversions succeed.
builder(i, p, d) ==
    [ok |-> i \in ValidInterfaceNames /\ p \in ValidObjectPaths /\ d \in ValidBusNames,
     proxy |-> [iface |-> i, path |-> p, dest |-> d]]

\* Result::unwrap_or
unwrap_or(r, default) == IF r = Fail THEN default ELSE r

\* The iteration of the loop ends: every binding of the body is dropped.
end_iteration ==
    /\ pc' = "next"
    /\ cur' = NoMsg
    /\ app' = NoApp
    /\ proxy' = NoProxy

\* Variant of build_proxy: a failed build is tried again.
build_proxy_retry(op, i, then, skip) ==
    LET b == builder(i, app.path, app.name) IN
    IF ~b.ok
    THEN /\ calls' = Append(calls, Call(N, op, b.proxy, Len(out), "setter_err"))
         /\ pc' = "exit_err"
         /\ UNCHANGED <<cur, app, proxy>>
    ELSE \E ok \in BOOLEAN :
         /\ calls' = Append(calls, Call(N, op, b.proxy, Len(out), IF ok THEN "ok" ELSE "build_err"))
         /\ proxy' = IF ok THEN b.proxy ELSE NoProxy
         /\ pc' = IF ok THEN then ELSE pc
         /\ UNCHANGED <<cur, app>>

\* if let Ok(p) = ProxyBuilder...?...build().await, for the proxy of interface
\* i: a failed setter leaves main through `?`; a failed build skips to `skip`.
build_proxy(op, i, then, skip) ==
    LET b == builder(i, app.path, app.name) IN
    IF ~b.ok
    THEN /\ calls' = Append(calls, Call(N, op, b.proxy, Len(out), "setter_err"))
         /\ pc' = "exit_err"
         /\ UNCHANGED <<cur, app, proxy>>
    ELSE \E ok \in BOOLEAN :
         /\ calls' = Append(calls, Call(N, op, b.proxy, Len(out), IF ok THEN "ok" ELSE "build_err"))
         /\ IF ok
              THEN /\ proxy' = b.proxy
                   /\ pc' = then
                   /\ UNCHANGED <<cur, app>>
              ELSE IF skip = "next"
                   THEN end_iteration
                   ELSE /\ pc' = skip
                        /\ proxy' = NoProxy
                        /\ UNCHANGED <<cur, app>>

\* Variant of fetch: a failed fetch prints nothing.
fetch_silent_on_err(op, values, default, kind) ==
    \E r \in values \cup {Fail} :
        /\ calls' = Append(calls, Call(N, op, proxy, Len(out), r))
        /\ out' = IF r = Fail THEN out ELSE Append(out, Line(N, kind, <<r>>))

\* p.<property>().await.unwrap_or(default); println!: one fetch and its line.
fetch(op, values, default, kind) ==
    \E r \in values \cup {Fail} :
        /\ calls' = Append(calls, Call(N, op, proxy, Len(out), r))
        /\ out' = Append(out, Line(N, kind, <<unwrap_or(r, default)>>))

app_build ==
    /\ pc = "app_build"
    /\ build_proxy("build_application", APPLICATION_INTERFACE, "app_toolkit", "acc_build")
    /\ UNCHANGED <<epoch, closed, connected, registered, setupErr, input, delivered, out>>

app_toolkit ==
    /\ pc = "app_toolkit"
    /\ fetch("toolkit_name", ToolkitValues, TOOLKIT_PLACEHOLDER, "toolkit")
    /\ pc' = "acc_build"
    /\ proxy' = NoProxy
    /\ UNCHANGED <<epoch, closed, connected, registered, setupErr, input, delivered, cur, app>>

acc_build ==
    /\ pc = "acc_build"
    /\ build_proxy("build_accessible", ACCESSIBLE_INTERFACE, "acc_name", "next")
    /\ UNCHANGED <<epoch, closed, connected, registered, setupErr, input, delivered, out>>

acc_name ==
    /\ pc = "acc_name"
    /\ fetch("name", NameValues, NAME_PLACEHOLDER, "name")
    /\ pc' = "acc_description"
    /\ UNCHANGED <<epoch, closed, connected, registered, setupErr, input, delivered, cur, app, proxy>>

\* Variant of acc_description: a failed fetch ends the handling of the event.
acc_description_abort_on_err ==
    /\ pc = "acc_description"
    /\ \E r \in DescriptionValues \cup {Fail} :
        /\ calls' = Append(calls, Call(N, "description", proxy, Len(out), r))
        /\ IF r = Fail
             THEN /\ out' = out
                  /\ end_iteration
             ELSE /\ out' = Append(out, Line(N, "description", <<r>>))
                  /\ pc' = "acc_role"
                  /\ UNCHANGED <<cur, app, proxy>>
    /\ UNCHANGED <<epoch, closed, connected, registered, setupErr, input, delivered>>

acc_description ==
    /\ pc = "acc_description"
    /\ fetch("description", DescriptionValues, DESCRIPTION_PLACEHOLDER, "description")
    /\ pc' = "acc_role"
    /\ UNCHANGED <<epoch, closed, connected, registered, setupErr, input, delivered, cur, app, proxy>>

acc_role ==
    /\ pc = "acc_role"
    /\ fetch("get_role", RoleValues, ROLE_UNKNOWN, "role")
    /\ end_iteration
    /\ UNCHANGED <<epoch, closed, connected, registered, setupErr, input, delivered>>

----------------------------------------------------------------------------
Next ==
    \/ open
    \/ register_event
    \/ stream_item
    \/ stream_end
    \/ dispatch
    \/ app_build
    \/ app_toolkit
    \/ acc_build
    \/ acc_name
    \/ acc_description
    \/ acc_role

Spec == Init /\ [][Next]_vars

----------------------------------------------------------------------------
\* The program among Cache events only, with its environment made explicit:
\* the remote objects answer by their state, which changes now and then, and
\* the stream may end while an event is being handled.

\* Bus names of the application references: two well-formed ones and an
\* ill-formed one.
EnvBusNames == {"org.example.App", ":1.42", "not a bus name"}

\* Cache Add signals with their header: the sender and the path of the
\* message are not those of the application reference in its body.
EnvAddSignals ==
    { [ok |-> TRUE, kind |-> "signal", ev |-> "Add", sig |-> "((so)(so)(so)iiassusau)",
       name |-> b, path |-> p, sender |-> ":1.7", hpath |-> "/org/a11y/atspi/cache"] :
        b \in EnvBusNames, p \in ObjectPaths }

EnvItems == EnvAddSignals \cup {RemoveSignal}

\* The stream yields a Cache signal.
stream_env_item == stream_yield(EnvItems, MaxEnvMsgs, MaxEnvMsgs)

\* The state of the remote objects changes (an application exits, renames a
\* window): from now on they may answer differently.  Changes that nobody
\* has observed are merged, and a change during the handling of an event is
\* taken as one before it: the calls of one event are all different, so it
\* frees the same answers for the program.
remote_change ==
    /\ pc = "next"
    /\ ~closed
    /\ Len(input) < MaxEnvMsgs
    /\ \E i \in 1..Len(calls) : calls[i].ep = epoch
    /\ epoch' = epoch + 1
    /\ UNCHANGED <<pc, connected, registered, setupErr, input, delivered, cur, app, proxy,
                   out, calls, closed>>

\* The bus connection is closed while a message is being handled: the stream
\* has ended, which main will see at its next raw_signals.next().  (The end
\* of the stream while main waits in next() is stream_end.)
stream_close ==
    /\ pc = "match"
    /\ ~closed
    /\ closed' = TRUE
    /\ UNCHANGED <<pc, connected, registered, setupErr, input, delivered, cur, app, proxy,
                   out, calls, epoch>>

\* While their state does not change, the remote objects give the same answer
\* to the same call on the same address.
RemoteSteady ==
    \A i, j \in 1..Len(calls) :
        (/\ calls[i].ep = calls[j].ep
         /\ calls[i].op = calls[j].op
         /\ calls[i].dest = calls[j].dest
         /\ calls[i].path = calls[j].path)
            => calls[i].res = calls[j].res

EnvNext ==
    \/ open
    \/ register_event
    \/ stream_env_item
    \/ stream_end
    \/ dispatch
    \/ app_build /\ RemoteSteady'
    \/ app_toolkit /\ RemoteSteady'
    \/ acc_build /\ RemoteSteady'
    \/ acc_name /\ RemoteSteady'
    \/ acc_description /\ RemoteSteady'
    \/ acc_role /\ RemoteSteady'
    \/ remote_change
    \/ stream_close

EnvSpec == Init /\ [][EnvNext]_vars

\* The steps of main that follow a remote call's return (or need none).
Handler ==
    \/ dispatch
    \/ app_build /\ RemoteSteady'
    \/ app_toolkit /\ RemoteSteady'
    \/ acc_build /\ RemoteSteady'
    \/ acc_name /\ RemoteSteady'
    \/ acc_description /\ RemoteSteady'
    \/ acc_role /\ RemoteSteady'

\* EnvSpec where every remote call returns and main is scheduled: a step of the
\* handler that can be taken is taken, and an ended stream is noticed.
FairEnvSpec == EnvSpec /\ WF_vars(Handler) /\ WF_vars(stream_end)

----------------------------------------------------------------------------
\* Vocabulary of the properties

\* Item n of the stream is a successfully read signal.
IsSignal(n) == input[n].ok /\ input[n].kind = "signal"

\* Item n is a successfully read signal that decodes to variant v.
Decodes(n, v) == IsSignal(n) /\ input[n].ev = v

\* The lines printed, and the operations attempted, while handling item n.
LinesOf(n) == SelectSeq(out, LAMBDA l : l.n = n)

CallsOf(n) == SelectSeq(calls, LAMBDA c : c.n = n)

\* The operations named op attempted while handling item n.
CallsOp(n, op) == SelectSeq(calls, LAMBDA c : c.n = n /\ c.op = op)

\* The lines of kind k printed while handling item n.
LinesKind(n, k) == SelectSeq(out, LAMBDA l : l.n = n /\ l.kind = k)

\* The iteration for item n ran to its end and the loop went on.
Handled(n) == n \in 1..Len(input) /\ (n < Len(input) \/ pc \in {"next", "exit_ok"})

\* The iteration for item n is over, whichever way it ended.
Over(n) ==
    n \in 1..Len(input) /\ (n < Len(input) \/ pc \in {"next", "exit_ok", "exit_err", "panicked"})

\* The handle build op of item n succeeded.
Built(n, op) == Len(CallsOp(n, op)) = 1 /\ CallsOp(n, op)[1].res = "ok"

----------------------------------------------------------------------------
\* C1: while an Add event is handled, no failure of a builder step (interface,
\* path, destination, build) and no failure of a property fetch ends the loop
\* or the process: every step taken inside the Add arm leaves main inside the
\* arm or back at the loop head, reading the next message.
C1_AddArmNeverLeavesLoop ==
    [][(pc \in AddArmPcs) => (pc' \in (AddArmPcs \cup {"next"}))]_vars

\* C2: a read failure between two valid signals gets exactly one diagnostic
\* error line, and the signal after it is still handled.
C2_ReadFailureIsLoggedOnce ==
    \A i \in 2..(Len(input) - 1) :
        (/\ ~input[i].ok
         /\ IsSignal(i - 1) /\ input[i - 1].ev # "None"
         /\ IsSignal(i + 1) /\ input[i + 1].ev # "None")
            => /\ Len(LinesKind(i, "error")) = 1
               /\ Len(delivered) >= 2
               /\ delivered[Len(delivered)] = input[i + 1]

\* C3: for every Add event the Application sequence and the Accessible
\* sequence are both attempted, whichever way the other one ends: once the
\* iteration is over both handle builds have been attempted, the toolkit line
\* is there exactly when the Application handle was built, and the name,
\* description and role lines are there exactly when the Accessible handle was.
C3_SequencesIndependent ==
    \A n \in 1..Len(input) :
        (Decodes(n, "Add") /\ Over(n))
            => /\ Len(CallsOp(n, "build_application")) = 1
               /\ Len(CallsOp(n, "build_accessible")) = 1
               /\ Built(n, "build_application") <=> Len(LinesKind(n, "toolkit")) = 1
               /\ \A k \in {"name", "description", "role"} :
                    Built(n, "build_accessible") <=> Len(LinesKind(n, k)) = 1

\* The four property fetches: operation, kind of the line, fallback.
Fetches ==
    { [op |-> "toolkit_name", kind |-> "toolkit", default |-> "Could not read toolkit property"],
      [op |-> "name", kind |-> "name", default |-> "Could not read name property"],
      [op |-> "description", kind |-> "description",
       default |-> "Could not obtain a description."],
      [op |-> "get_role", kind |-> "role", default |-> "Unknown"] }

\* C4: once a handle is built, each property fetch on it prints exactly one
\* line whether it succeeds or fails (the fetched value, or the fixed placeholder
\* of that property on failure, Unknown for the role), and a failed fetch does
\* not keep the later fetches of the sequence from being issued and printed.
C4_EveryFetchPrintsOneLine ==
    \A n \in 1..Len(input) :
        /\ \A f \in Fetches :
            LET c == CallsOp(n, f.op)
                l == LinesKind(n, f.kind)
            IN  /\ Len(c) <= 1
                /\ Len(l) = Len(c)
                /\ Len(c) = 1 =>
                     l[1].text = << IF c[1].res = Fail THEN f.default ELSE c[1].res >>
        /\ Over(n) =>
            /\ Built(n, "build_application") => Len(CallsOp(n, "toolkit_name")) = 1
            /\ Built(n, "build_accessible") =>
                 \A op \in {"name", "description", "get_role"} : Len(CallsOp(n, op)) = 1

\* An Add event was handled to the end with all four fetches failing.
C4_Witness ==
    \E n \in 1..Len(input) :
        /\ Handled(n)
        /\ Built(n, "build_application") /\ Built(n, "build_accessible")
        /\ \A f \in Fetches : Len(CallsOp(n, f.op)) = 1 /\ CallsOp(n, f.op)[1].res = Fail
        /\ LinesKind(n, "role")[1].text = <<"Unknown">>

\* C5: every handle build and every property fetch is made while a decoded
\* Cache Add event is handled; Remove, LegacyAdd, other events, undecodable
\* signals and non-signal messages cause none.
C5_OnlyAddEventsQuery ==
    /\ \A i \in 1..Len(calls) : Decodes(calls[i].n, "Add")
    /\ proxy # NoProxy => (pc \in AddArmPcs /\ Decodes(N, "Add"))

\* A Remove and a LegacyAdd event were handled without a call, an Add event
\* with all six.
C5_Witness ==
    \E i, j, k \in 1..Len(input) :
        /\ Handled(i) /\ Handled(j) /\ Handled(k)
        /\ Decodes(i, "Remove") /\ Decodes(j, "LegacyAdd") /\ Decodes(k, "Add")
        /\ Len(CallsOf(k)) = 6
        /\ Len(calls) = 6

\* C6: the filter hands the loop exactly the successfully read signal
\* messages, in their order; failed reads and non-signal messages never reach
\* the loop body and leave no output.
C6_FilterPassesExactlySignals ==
    /\ delivered = SelectSeq(input, LAMBDA m : m.ok /\ m.kind = "signal")
    /\ pc \in ({"match"} \cup AddArmPcs) => (cur = input[N] /\ cur.ok /\ cur.kind = "signal")
    /\ \A n \in 1..Len(input) : ~IsSignal(n) => (LinesOf(n) = <<>> /\ CallsOf(n) = <<>>)

\* A failed read and a non-signal message were dropped around a signal.
C6_Witness ==
    /\ Len(input) = 3
    /\ ~input[1].ok
    /\ IsSignal(2) /\ Handled(2)
    /\ input[3].ok /\ input[3].kind = "method_return"
    /\ delivered = <<input[2]>>

\* C7: a signal that does not decode to an Event causes nothing: no line, no
\* call, and the loop goes on to the next message.
C7_UndecodedSignalsIgnored ==
    \A n \in 1..Len(input) :
        Decodes(n, "None") =>
            /\ LinesOf(n) = <<>>
            /\ CallsOf(n) = <<>>
            /\ n = N => pc \in {"match", "next", "exit_ok"}

\* An undecodable signal was passed over and the next signal read.
C7_Witness ==
    \E n \in 1..Len(input) :
        /\ Decodes(n, "None")
        /\ n < Len(input)
        /\ Decodes(n + 1, "Remove")
        /\ Handled(n + 1)

\* C8: an Add event whose two handles build and whose four fetches succeed
\* prints exactly: signature line, root-object line with the event's bus name
\* and path, toolkit, name, description, role, in this order, and the
\* Application sequence is done before the Accessible sequence starts.
C8_FullAddOutput ==
    \A n \in 1..Len(input) :
        LET c == CallsOf(n)
            before(i) == Len(SelectSeq(SubSeq(out, 1, c[i].at), LAMBDA l : l.n = n))
        IN
        (/\ Decodes(n, "Add")
         /\ Handled(n)
         /\ \A i \in 1..Len(c) : c[i].res \notin {Fail, "build_err", "setter_err"})
            => /\ [i \in 1..Len(c) |-> c[i].op] =
                    << "build_application", "toolkit_name",
                       "build_accessible", "name", "description", "get_role" >>
               /\ LinesOf(n) =
                    << [n |-> n, kind |-> "add_sig", text |-> <<input[n].sig>>],
                       [n |-> n, kind |-> "root", text |-> <<input[n].name, input[n].path>>],
                       [n |-> n, kind |-> "toolkit", text |-> <<c[2].res>>],
                       [n |-> n, kind |-> "name", text |-> <<c[4].res>>],
                       [n |-> n, kind |-> "description", text |-> <<c[5].res>>],
                       [n |-> n, kind |-> "role", text |-> <<c[6].res>>] >>
               /\ [i \in 1..6 |-> before(i)] = <<2, 2, 3, 3, 4, 5>>

\* An Add event was handled with every call succeeding.
C8_Witness ==
    \E n \in 1..Len(input) :
        /\ Decodes(n, "Add")
        /\ Handled(n)
        /\ Len(CallsOf(n)) = 6
        /\ \A i \in 1..6 : CallsOf(n)[i].res \in {"ok", "Gtk", "MainWindow", "", "Frame"}
        /\ Len(LinesOf(n)) = 6

\* C9: a Remove event and a LegacyAdd event each print exactly one line, the
\* body signature, and nothing else; any other decoded non-Add event prints
\* nothing.
C9_RemoveLegacyAddOneLine ==
    \A n \in 1..Len(input) :
        Handled(n) =>
            /\ Decodes(n, "Remove") =>
                 LinesOf(n) = << [n |-> n, kind |-> "remove_sig", text |-> <<input[n].sig>>] >>
            /\ Decodes(n, "LegacyAdd") =>
                 LinesOf(n) = << [n |-> n, kind |-> "legacy_sig", text |-> <<input[n].sig>>] >>
            /\ Decodes(n, "Other") => LinesOf(n) = <<>>

\* One event of each of the three kinds was handled: two lines in all.
C9_Witness ==
    /\ Len(input) = 3
    /\ Handled(3)
    /\ Decodes(1, "LegacyAdd") /\ Decodes(2, "Other") /\ Decodes(3, "Remove")
    /\ Len(out) = 2

\* C10: startup is all-or-nothing: a failure of open() or of any of the three
\* registrations ends the process with a failure before any message is read,
\* and whenever a message has been read all three registrations were made.
C10_StartupAllOrNothing ==
    /\ setupErr # "none" => (pc = "exit_err" /\ input = <<>> /\ out = <<>>)
    /\ (input # <<>> \/ pc \in ({"next", "match", "exit_ok"} \cup AddArmPcs)) =>
          /\ connected
          /\ registered =
               <<"AddAccessibleEvent", "LegacyAddAccessibleEvent", "RemoveAccessibleEvent">>

\* The last registration failed after the first two succeeded.
C10_Witness ==
    /\ setupErr = "RemoveAccessibleEvent"
    /\ Len(registered) = 2
    /\ pc = "exit_err"
    /\ input = <<>>

\* C11: after a successful startup no single message ends the consume loop,
\* whatever it holds: the process leaves the loop only when the stream ends,
\* so it never ends in a failure or a panic once the registrations are made.
C11_LoopEndsOnlyWithStream ==
    (connected /\ Len(registered) = 3) => pc \notin {"exit_err", "panicked"}

\* The handling of Add item n went through all its steps.
Complete(n) ==
    LET c == CallsOf(n) IN
    /\ Len(c) > 0
    /\ \/ c[Len(c)].op = "get_role"
       \/ c[Len(c)].op = "build_accessible" /\ c[Len(c)].res = "build_err"

\* C12: events are handled one at a time in arrival order: when a message is
\* taken from the stream, every build, fetch and line of the message before it
\* is done, so the lines of two events never interleave and follow the order
\* of arrival, each line carrying the data of its own message.
C12_OneEventAtATime ==
    /\ \A n \in 1..(Len(input) - 1) :
        /\ Decodes(n, "Add") => (Complete(n) /\ Len(LinesOf(n)) >= 2)
        /\ (Decodes(n, "Remove") \/ Decodes(n, "LegacyAdd")) => Len(LinesOf(n)) = 1
    /\ \A i, j \in 1..Len(out) : i < j => out[i].n <= out[j].n
    /\ \A i, j \in 1..Len(calls) : i < j => calls[i].n <= calls[j].n
    /\ \A i \in 1..Len(out) :
        /\ out[i].kind \in {"add_sig", "remove_sig", "legacy_sig"} =>
             out[i].text = <<input[out[i].n].sig>>
        /\ out[i].kind = "root" =>
             out[i].text = <<input[out[i].n].name, input[out[i].n].path>>
    /\ pc \in ({"match"} \cup AddArmPcs) => cur = input[N]

\* An Add event was handled, all six lines printed, before a Remove event.
C12_Witness ==
    /\ Len(input) = 2
    /\ Decodes(1, "Add") /\ Decodes(2, "Remove")
    /\ Handled(2)
    /\ [i \in 1..Len(out) |-> out[i].n] = <<1, 1, 1, 1, 1, 1, 2>>

\* The handle build a property fetch depends on.
BuildOf(op) == IF op = "toolkit_name" THEN "build_application" ELSE "build_accessible"

\* C15: nothing is retried: while one Add event is handled each of the two
\* handle builds and each of the four fetches is issued at most once, whatever
\* its outcome, and a fetch is issued only after the build of its own handle
\* succeeded, on the address of that handle.
C15_NoRetry ==
    /\ \A n \in 1..Len(input) :
        \A op \in {"build_application", "build_accessible",
                   "toolkit_name", "name", "description", "get_role"} :
            Len(CallsOp(n, op)) <= 1
    /\ \A i \in 1..Len(calls) :
        calls[i].op \notin {"build_application", "build_accessible"} =>
            \E j \in 1..(i - 1) :
                /\ calls[j].n = calls[i].n
                /\ calls[j].op = BuildOf(calls[i].op)
                /\ calls[j].res = "ok"
                /\ <<calls[j].iface, calls[j].path, calls[j].dest>> =
                     <<calls[i].iface, calls[i].path, calls[i].dest>>

\* An Add event was handled whose Application build and name fetch failed:
\* five calls, each made once.
C15_Witness ==
    \E n \in 1..Len(input) :
        /\ Handled(n)
        /\ [i \in 1..Len(CallsOf(n)) |-> CallsOf(n)[i].op] =
             <<"build_application", "build_accessible", "name", "description", "get_role">>
        /\ CallsOf(n)[1].res = "build_err"
        /\ CallsOf(n)[3].res = Fail

\* The kinds of the lines printed for item n, in order.
KindsOf(n) == [i \in 1..Len(LinesOf(n)) |-> LinesOf(n)[i].kind]

\* C18: an Add event handled to the end prints 2, 3, 5 or 6 lines: the
\* signature line and the root-object line first, then the toolkit line exactly
\* when the Application handle was built, then the name, description and role
\* lines, all three in this order, exactly when the Accessible handle was built.
C18_AddLineCount ==
    \A n \in 1..Len(input) :
        (Decodes(n, "Add") /\ Handled(n)) =>
            /\ Len(LinesOf(n)) \in {2, 3, 5, 6}
            /\ KindsOf(n) =
                 <<"add_sig", "root">>
                   \o (IF Built(n, "build_application") THEN <<"toolkit">> ELSE <<>>)
                   \o (IF Built(n, "build_accessible")
                         THEN <<"name", "description", "role">> ELSE <<>>)

\* An Add event printed five lines: no Application handle, a failed
\* description fetch.
C18_Witness ==
    \E n \in 1..Len(input) :
        /\ Decodes(n, "Add") /\ Handled(n)
        /\ ~Built(n, "build_application")
        /\ Len(CallsOp(n, "description")) = 1 /\ CallsOp(n, "description")[1].res = Fail
        /\ Len(LinesOf(n)) = 5

\* C13: a remote call has no timeout and cannot be cancelled: while a build or
\* a fetch of an Add event has not returned, no message is taken from the
\* stream and what was printed stays as it is; and when every remote call
\* returns, every signal the stream delivers is handled in the end.
C13_NoTimeoutThenProgress ==
    /\ [][(pc \in AddArmPcs) =>
            (/\ input' = input
             /\ delivered' = delivered
             /\ Len(out') >= Len(out)
             /\ SubSeq(out', 1, Len(out)) = out)]_vars
    /\ \A n \in 1..MaxEnvMsgs : (n <= Len(input) /\ IsSignal(n)) ~> Handled(n)

\* What was printed for item n, and what was called and answered for it.
Printed(n) == [k \in 1..Len(LinesOf(n)) |-> <<LinesOf(n)[k].kind, LinesOf(n)[k].text>>]

Answered(n) == [k \in 1..Len(CallsOf(n)) |-> <<CallsOf(n)[k].op, CallsOf(n)[k].res>>]

\* The remote objects did not change from the first call of item i to the
\* last call of item j.
Unchanged(i, j) ==
    \A a, b \in 1..Len(calls) :
        (calls[a].n \in {i, j} /\ calls[b].n \in {i, j}) => calls[a].ep = calls[b].ep

\* C14: handling the same Add event twice while the remote objects do not
\* change prints the same lines both times, and nothing an event leaves
\* behind (message, application reference, proxy) is there when the next
\* message is awaited.
C14_SameEventSameOutput ==
    /\ \A i, j \in 1..Len(input) :
        (/\ i < j
         /\ Decodes(i, "Add")
         /\ input[i] = input[j]
         /\ Handled(j)
         /\ Unchanged(i, j))
            => (Printed(i) = Printed(j) /\ Answered(i) = Answered(j))
    /\ pc \in {"next", "exit_ok"} => (cur = NoMsg /\ app = NoApp /\ proxy = NoProxy)

\* The same Add event was handled twice, the remote objects unchanged, with a
\* failing name fetch.
C14_Witness ==
    /\ Len(input) = 2
    /\ Decodes(1, "Add") /\ input[1] = input[2]
    /\ Handled(2)
    /\ Unchanged(1, 2)
    /\ Len(LinesOf(1)) = 6
    /\ CallsOp(1, "name")[1].res = Fail

\* C16: when the stream ends after a successful startup, the process finishes
\* the event in progress, leaves the loop and ends with success; a failed
\* startup ends with a failure.
C16_ExitCodes ==
    /\ setupErr # "none" => pc = "exit_err"
    /\ pc = "exit_ok" => (setupErr = "none" /\ closed)
    /\ (closed /\ pc \in {"exit_ok", "exit_err", "panicked"}) =>
          /\ pc = "exit_ok"
          /\ \A n \in 1..Len(input) : Handled(n)

\* C17: both proxies of an Add event are addressed to the bus name and the
\* object path of that event's own application reference, the pair of its
\* root-object line, never to those of an earlier event or of the message
\* header; and no proxy lives longer than the handling of its event.
C17_HandlesOfOwnEvent ==
    /\ \A i \in 1..Len(calls) :
        LET c == calls[i] IN
        /\ c.dest = input[c.n].name
        /\ c.path = input[c.n].path
        /\ c.iface = IF c.op \in {"build_application", "toolkit_name"}
                       THEN "org.a11y.atspi.Application"
                       ELSE "org.a11y.atspi.Accessible"
        /\ LinesKind(c.n, "root")[1].text = <<c.dest, c.path>>
    /\ proxy # NoProxy =>
          /\ pc \in AddArmPcs
          /\ proxy.dest = input[N].name /\ proxy.path = input[N].path

\* Two Add events of different applications were handled, each with both of
\* its proxies built.
C17_Witness ==
    /\ Len(input) = 2
    /\ Decodes(1, "Add") /\ Decodes(2, "Add")
    /\ input[1].name = ":1.42" /\ input[2].name = "org.example.App"
    /\ Handled(2)
    /\ \A n \in {1, 2} : Built(n, "build_application") /\ Built(n, "build_accessible")

====
